---- MODULE Spec2Model ----
(***************************************************************************)
(* The system pipeline scheduler of flecs (src/src/modules/pipeline.c):    *)
(* the plan builder (build_pipeline), the two pipeline queries made when   *)
(* the Pipeline tag is added (EcsOnAddPipeline), the frame driver          *)
(* (ecs_pipeline_progress with iter_reset), ecs_progress / ecs_quit and    *)
(* the activation sweep (ecs_deactivate_systems).                          *)
(*                                                                         *)
(* A system is identified by its entity id 1..NumSystems.  All systems of  *)
(* the model carry the EcsSystem component and one phase tag of the        *)
(* pipeline, so both pipeline queries, which are sorted by (phase, id),    *)
(* yield them by ascending id.                                             *)
(***************************************************************************)
EXTENDS Integers, Sequences, FiniteSets, TLC

\* ------------------------------------------------------------------ bounds
NumSystems == 3
MaxMatchCount == 2
MaxTables == 1
MaxClock == 3
TicksPerSec == 2

\* ------------------------------------------------- ComponentWriteState enum
NotWritten == 0
WriteToMain == 1
WriteToStage == 2

\* ------------------------------------------------------------ column kinds
FromKinds == {"EcsFromSelf", "EcsFromEmpty", "EcsFromParent"}
OperKinds == {"EcsOperAnd", "EcsOperOr", "EcsOperNot"}
InOutKinds == {"EcsInOut", "EcsIn", "EcsOut"}
Components == {"A", "B"}

SystemIds == 1..NumSystems

\* ecs_sig_column_t, as far as the pipeline reads it
Column(from_kind, oper_kind, inout_kind, component) ==
    [from_kind |-> from_kind, oper_kind |-> oper_kind,
     inout_kind |-> inout_kind, component |-> component]

\* ------------------------------------------------------------- write state
\* The map of a build: component -> ComponentWriteState; a component that
\* was never set has no entry.
EmptyWriteState == <<>>

get_write_state(write_state, component) ==
    IF component \in DOMAIN write_state THEN write_state[component] ELSE 0

set_write_state(write_state, component, value) ==
    [c \in (DOMAIN write_state) \cup {component} |->
        IF c = component THEN value ELSE write_state[c]]

reset_write_state(write_state) == EmptyWriteState

\* ------------------------------------------------------- check_column(...)
\* The result of a column check: whether a merge is requested, and the
\* write state the check leaves behind.

\* check_column_component with line 125 reduced to a plain `else`: every
\* column that is not a FromSelf non-Not column takes the staged-write branch.
check_column_component_else(column, is_active, component, write_state) ==
    LET state == get_write_state(write_state, component) IN
    IF column.from_kind = "EcsFromSelf" /\ column.oper_kind # "EcsOperNot"
    THEN IF column.inout_kind \in {"EcsInOut", "EcsIn"} /\ state = WriteToStage
         THEN [merge |-> TRUE, write_state |-> write_state]
         ELSE IF is_active /\ column.inout_kind # "EcsIn"
              THEN [merge |-> FALSE,
                    write_state |-> set_write_state(write_state, component, WriteToMain)]
              ELSE [merge |-> FALSE, write_state |-> write_state]
    ELSE IF column.inout_kind \in {"EcsInOut", "EcsOut"} /\ is_active
         THEN [merge |-> FALSE,
               write_state |-> set_write_state(write_state, component, WriteToStage)]
         ELSE [merge |-> FALSE, write_state |-> write_state]

check_column_component(column, is_active, component, write_state) ==
    LET state == get_write_state(write_state, component) IN
    IF column.from_kind = "EcsFromSelf" /\ column.oper_kind # "EcsOperNot"
    THEN IF column.inout_kind \in {"EcsInOut", "EcsIn"} /\ state = WriteToStage
         THEN [merge |-> TRUE, write_state |-> write_state]
         ELSE IF is_active /\ column.inout_kind # "EcsIn"
              THEN [merge |-> FALSE,
                    write_state |-> set_write_state(write_state, component, WriteToMain)]
              ELSE [merge |-> FALSE, write_state |-> write_state]
    ELSE IF column.from_kind = "EcsFromEmpty" \/ column.oper_kind = "EcsOperNot"
         THEN IF column.inout_kind \in {"EcsInOut", "EcsOut"} /\ is_active
              THEN [merge |-> FALSE,
                    write_state |-> set_write_state(write_state, component, WriteToStage)]
              ELSE [merge |-> FALSE, write_state |-> write_state]
         ELSE [merge |-> FALSE, write_state |-> write_state]

check_column(column, is_active, write_state) ==
    IF column.oper_kind # "EcsOperOr"
    THEN check_column_component(column, is_active, column.component, write_state)
    ELSE [merge |-> FALSE, write_state |-> write_state]

\* ecs_vector_each(q->sig.columns, ..., { needs_merge |= check_column(...) }):
\* every column is checked, whatever the columns before it answered.
RECURSIVE check_columns(_, _, _, _)
check_columns(columns, is_active, needs_merge, write_state) ==
    IF columns = <<>>
    THEN [merge |-> needs_merge, write_state |-> write_state]
    ELSE LET r == check_column(Head(columns), is_active, write_state) IN
         check_columns(Tail(columns), is_active,
                       needs_merge \/ r.merge, r.write_state)

\* ---------------------------------------------------- the pipeline queries
\* ecs_sig_add: append one column to a signature.
ecs_sig_add(sig, from_kind, oper_kind, inout_kind, component) ==
    Append(sig, Column(from_kind, oper_kind, inout_kind, component))

\* EcsOnAddPipeline, lines 373 and 390-393: the signature the run query is
\* created from.
RunQuerySig ==
    LET sig0 == <<>>
        sig1 == ecs_sig_add(sig0, "EcsFromSelf", "EcsOperAnd", "EcsIn", "EcsSystem")
        sig2 == ecs_sig_add(sig1, "EcsFromSelf", "EcsOperAnd", "EcsIn", "XOR|pipeline")
        sig3 == ecs_sig_add(sig2, "EcsFromSelf", "EcsOperNot", "EcsIn", "EcsInactive")
        sig4 == ecs_sig_add(sig3, "EcsFromSelf", "EcsOperNot", "EcsIn", "EcsDisabledIntern")
    IN sig4

\* The build query created from a signature of its own three columns, as
\* the comment of lines 399-403 describes it: it yields the Inactive systems.
BuildQuerySig_own ==
    LET sig0 == <<>>
        sig5 == ecs_sig_add(sig0, "EcsFromSelf", "EcsOperAnd", "EcsIn", "EcsSystem")
        sig6 == ecs_sig_add(sig5, "EcsFromSelf", "EcsOperAnd", "EcsIn", "XOR|pipeline")
        sig7 == ecs_sig_add(sig6, "EcsFromSelf", "EcsOperNot", "EcsIn", "EcsDisabledIntern")
    IN sig7

\* EcsOnAddPipeline, lines 404-409: the build query is created from the same
\* local `sig`, which still holds the run query's four columns: nothing
\* between line 396 and line 404 empties it.
BuildQuerySig ==
    LET sig4 == RunQuerySig
        sig5 == ecs_sig_add(sig4, "EcsFromSelf", "EcsOperAnd", "EcsIn", "EcsSystem")
        sig6 == ecs_sig_add(sig5, "EcsFromSelf", "EcsOperAnd", "EcsIn", "XOR|pipeline")
        sig7 == ecs_sig_add(sig6, "EcsFromSelf", "EcsOperNot", "EcsIn", "EcsDisabledIntern")
    IN sig7

\* The type of a system's entity: every system of the model has the
\* EcsSystem component and one phase tag of the pipeline, plus its tags.
SystemTags == {"EcsInactive", "EcsDisabledIntern"}

EntityType(sys) == {"EcsSystem", "XOR|pipeline"} \cup sys.tags

\* Query matching: every And column is in the type, no Not column is.
Matches(type, sig) ==
    \A k \in 1..Len(sig) :
        /\ sig[k].oper_kind = "EcsOperAnd" => sig[k].component \in type
        /\ sig[k].oper_kind = "EcsOperNot" => sig[k].component \notin type

\* An entity id (ecs_entity_t, 64 bits) is <<bits 63..32, bits 31..16,
\* bits 15..0>>; Word is the number of values of 16 bits.
Word == 65536

EntityId(k) == <<0, 0, k>>

\* compare_entity, line 57: `return e1 - e2`, the difference of the two
\* 64-bit ids converted to the 32-bit int the function returns, which keeps
\* the low 32 bits of the difference as a two's complement number.
compare_entity(e1, e2) ==
    LET lo == e1[3] - e2[3]
        borrow == IF lo < 0 THEN 1 ELSE 0
        low16 == lo % Word
        high16 == (e1[2] - e2[2] - borrow) % Word
    IN IF high16 >= Word \div 2
       THEN (high16 - Word) * Word + low16
       ELSE high16 * Word + low16

\* ecs_query_sort(world, query, 0, compare_entity): the entities in the
\* order of an insertion sort by compare_entity, from the order they are
\* stored in.
RECURSIVE sort_insert(_, _, _)
sort_insert(sorted, e, sys) ==
    IF sorted = <<>>
    THEN <<e>>
    ELSE LET x == sorted[Len(sorted)] IN
         IF compare_entity(sys[x].id, sys[e].id) > 0
         THEN Append(sort_insert(SubSeq(sorted, 1, Len(sorted) - 1), e, sys), x)
         ELSE Append(sorted, e)

RECURSIVE ecs_query_sort(_, _)
ecs_query_sort(entities, sys) ==
    IF entities = <<>>
    THEN <<>>
    ELSE sort_insert(ecs_query_sort(SubSeq(entities, 1, Len(entities) - 1), sys),
                     entities[Len(entities)], sys)

\* ecs_query_iter / ecs_query_next over a query sorted by compare_entity
\* within one phase: the entities the query yields, in the sorted order.
\* An entity is named by the position it is stored at (the order the
\* systems were registered in); its id is sys[e].id.
query_iter(sig, sys) ==
    ecs_query_sort(
        SelectSeq([e \in SystemIds |-> e], LAMBDA e : Matches(EntityType(sys[e]), sig)),
        sys)

YieldedBy(sig, sys) == {e \in SystemIds : Matches(EntityType(sys[e]), sig)}

\* ecs_has_entity(world, e, EcsInactive)
ecs_has_entity(sys, e, tag) == tag \in sys[e].tags

\* ------------------------------------------------------------ build_pipeline
\* The state of the loop of build_pipeline: the write state, the ops vector
\* (one count per execution group), `op` (0 is NULL, else the index of the
\* op being filled) and whether the assertion of line 214 was violated.
BuildStart ==
    [write_state |-> EmptyWriteState, ops |-> <<>>, op |-> 0,
     assert_failed |-> FALSE]

\* The loop body with the first sweep of line 194 setting the write flags
\* of inactive systems too.
build_system_writes_inactive(b, system, is_active) ==
    IF ~system.query
    THEN b
    ELSE LET first == check_columns(system.columns, TRUE, FALSE, b.write_state)
             again == check_columns(system.columns, TRUE, FALSE,
                                    reset_write_state(first.write_state))
             write_state == IF ~first.merge THEN first.write_state
                            ELSE IF is_active THEN again.write_state
                            ELSE reset_write_state(first.write_state)
             op1 == IF first.merge THEN 0 ELSE b.op
             ops1 == IF op1 = 0 THEN Append(b.ops, 0) ELSE b.ops
             op2 == Len(ops1)
             ops2 == IF is_active THEN [ops1 EXCEPT ![op2] = @ + 1] ELSE ops1
         IN [write_state |-> write_state, ops |-> ops2, op |-> op2,
             assert_failed |-> b.assert_failed
                                \/ (first.merge /\ is_active /\ again.merge)]

\* Lines 184-226: the loop body for one system the build query yields.
build_system(b, system, is_active) ==
    IF ~system.query
    THEN b
    ELSE LET first == check_columns(system.columns, is_active, FALSE, b.write_state)
             again == check_columns(system.columns, TRUE, FALSE,
                                    reset_write_state(first.write_state))
             write_state == IF ~first.merge THEN first.write_state
                            ELSE IF is_active THEN again.write_state
                            ELSE reset_write_state(first.write_state)
             op1 == IF first.merge THEN 0 ELSE b.op
             ops1 == IF op1 = 0 THEN Append(b.ops, 0) ELSE b.ops
             op2 == Len(ops1)
             ops2 == IF is_active THEN [ops1 EXCEPT ![op2] = @ + 1] ELSE ops1
         IN [write_state |-> write_state, ops |-> ops2, op |-> op2,
             assert_failed |-> b.assert_failed
                                \/ (first.merge /\ is_active /\ again.merge)]

\* Lines 178-228: the loop over the systems the build query yields.
RECURSIVE build_loop(_, _, _)
build_loop(b, entities, sys) ==
    IF entities = <<>>
    THEN b
    ELSE LET e == Head(entities) IN
         build_loop(build_system(b, sys[e], ~ecs_has_entity(sys, e, "EcsInactive")),
                    Tail(entities), sys)

\* build_pipeline without the test of line 161: every call rebuilds.
build_pipeline_unconditional(sys, p, run_match_count) ==
    LET b == build_loop(BuildStart, query_iter(BuildQuerySig, sys), sys) IN
    [rebuilt |-> TRUE,
     pq |-> [match_count |-> run_match_count, ops |-> b.ops],
     assert_failed |-> b.assert_failed]

\* build_pipeline(world, pq): whether the plan was rebuilt, and pq after it.
build_pipeline(sys, p, run_match_count) ==
    IF p.match_count = run_match_count
    THEN [rebuilt |-> FALSE, pq |-> p, assert_failed |-> FALSE]
    ELSE LET b == build_loop(BuildStart, query_iter(BuildQuerySig, sys), sys) IN
         [rebuilt |-> TRUE,
          pq |-> [match_count |-> run_match_count, ops |-> b.ops],
          assert_failed |-> b.assert_failed]

\* ------------------------------------------------------------------- state
VARIABLES
    systems,            \* entity id -> [query, columns, tags, tables]: EcsSystem and the entity's tags
    query_match_count,  \* pq->query->match_count, the run query's version
    pq,                 \* EcsPipelineQuery of the pipeline: [match_count, ops]
    world,              \* ecs_world_t: pipeline_build_count_total, in_progress, should_quit
    frame,              \* the locals of ecs_pipeline_progress and the frame's history
    last,               \* the last call of the public API and what it returned
    halted,             \* "" while the program runs, else the error it stopped with
    timer               \* the frame clock: the world's time fields and the locals of start_measure_frame

vars == <<systems, query_match_count, pq, world, frame, last, halted, timer>>

NoCall == [call |-> "none", result |-> 0, rebuilt |-> FALSE, added |-> {}]

Called(name, result, rebuilt, added) ==
    [call |-> name, result |-> result, rebuilt |-> rebuilt, added |-> added]

IdleFrame ==
    [pc |-> "idle", it |-> <<>>, i |-> 0, op |-> 0, op_last |-> 0,
     ran_since_merge |-> 0, log |-> <<>>, resets |-> 0, resumed |-> 0,
     undefined |-> FALSE]

\* A float or a time in seconds, as the fraction <<numerator, denominator>>;
\* <<1, 0>> is +infinity.
IsZero(x) == x[1] = 0

\* 1.0 / x
Inverse(x) == <<x[2], x[1]>>

\* The frame clock of a new world: no frame was started, frame time is not
\* measured, no target FPS, the OS API has a time source.  Times are in
\* ticks of the clock, TicksPerSec to the second.
StartTimer ==
    [frame_start_time |-> 0, measure_frame_time |-> FALSE, target_fps |-> <<0, 1>>,
     get_time |-> TRUE, delta_time |-> <<0, 1>>,
     pc |-> "idle", t |-> 0, user_delta_time |-> <<0, 1>>, retried |-> FALSE]

\* EcsSystem of a system entity and its tags.  query is FALSE for a system
\* whose EcsSystem holds no query (sys[i].query == NULL); tables is
\* ecs_vector_count(query->tables).
System(query, columns, tags, tables) ==
    [query |-> query, columns |-> columns, tags |-> tags, tables |-> tables]

\* The system entity with its id (it.entities[i]).
SystemEntity(system, id) ==
    [query |-> system.query, columns |-> system.columns, tags |-> system.tags,
     tables |-> system.tables, id |-> id]

\* The systems `kinds` (position -> EcsSystem and tags) with the ids `ids`.
WithIds(kinds, ids) == [k \in SystemIds |-> SystemEntity(kinds[k], ids[k])]

\* The run query's match_count after the entities changed from `before` to
\* `after`: bumped when the set the run query matches changed.
bump_match_count(count, before, after) ==
    IF YieldedBy(RunQuerySig, before) # YieldedBy(RunQuerySig, after)
    THEN count + 1
    ELSE count

\* EcsOnAddPipeline setting the snapshot to 0, the match_count of a new query.
InitPipeline_zero ==
    /\ query_match_count = 0
    /\ pq = [match_count |-> 0, ops |-> <<>>]
    /\ world = [pipeline_build_count_total |-> 0, in_progress |-> FALSE,
                should_quit |-> FALSE]
    /\ frame = IdleFrame
    /\ last = NoCall
    /\ halted = ""
    /\ timer = StartTimer

\* The state after EcsOnAddPipeline (lines 417-420): match_count -1, no ops.
InitPipeline ==
    /\ query_match_count = 0
    /\ pq = [match_count |-> -1, ops |-> <<>>]
    /\ world = [pipeline_build_count_total |-> 0, in_progress |-> FALSE,
                should_quit |-> FALSE]
    /\ frame = IdleFrame
    /\ last = NoCall
    /\ halted = ""
    /\ timer = StartTimer

InitWith(columnLists, tagSets, tableCounts) ==
    /\ systems \in
          {WithIds(kinds, [k \in SystemIds |-> EntityId(k)]) : kinds \in [SystemIds ->
             {System(TRUE, c, t, n) : c \in columnLists, t \in tagSets, n \in tableCounts}
             \cup {System(FALSE, <<>>, t, 0) : t \in tagSets}]}
    /\ InitPipeline

\* ------------------------------------------------------ the builder's calls
\* world after a call of build_pipeline (line 166).
count_build(w, r) ==
    [w EXCEPT !.pipeline_build_count_total = IF r.rebuilt THEN @ + 1 ELSE @]

\* The assertion of line 214 stops a build that has assertions compiled in
\* and is compiled out under NDEBUG.
assert_stops(r, ndebug) == r.assert_failed /\ ~ndebug

ecs_pipeline_update ==
    /\ halted = ""
    /\ UNCHANGED timer
    /\ frame.pc = "idle"
    /\ \E ndebug \in BOOLEAN :
         LET r == build_pipeline(systems, pq, query_match_count) IN
         /\ halted' = IF assert_stops(r, ndebug) THEN "ECS_INTERNAL_ERROR" ELSE ""
         /\ pq' = r.pq
         /\ world' = count_build(world, r)
         /\ last' = Called("ecs_pipeline_update",
                           IF r.rebuilt THEN Len(r.pq.ops) ELSE 0, r.rebuilt, {})
    /\ frame' = IdleFrame
    /\ UNCHANGED <<systems, query_match_count>>

ecs_pipeline_begin ==
    /\ halted = ""
    /\ UNCHANGED timer
    /\ frame.pc = "idle"
    /\ ~world.in_progress
    /\ \E ndebug \in BOOLEAN :
         LET r == build_pipeline(systems, pq, query_match_count) IN
         /\ halted' = IF assert_stops(r, ndebug) THEN "ECS_INTERNAL_ERROR" ELSE ""
         /\ pq' = r.pq
         /\ world' = count_build(world, r)
         /\ last' = Called("ecs_pipeline_begin", Len(r.pq.ops), r.rebuilt, {})
    /\ frame' = IdleFrame
    /\ UNCHANGED <<systems, query_match_count>>

\* ------------------------------------------------- changes from the outside
\* A tag is added to or removed from a system entity between frames.
SetTag(e, tag) ==
    /\ halted = ""
    /\ UNCHANGED timer
    /\ frame.pc = "idle"
    /\ query_match_count < MaxMatchCount
    /\ LET after == [systems EXCEPT ![e].tags =
                        IF tag \in @ THEN @ \ {tag} ELSE @ \cup {tag}] IN
       /\ systems' = after
       /\ query_match_count' = bump_match_count(query_match_count, systems, after)
    /\ last' = NoCall
    /\ frame' = IdleFrame
    /\ UNCHANGED <<pq, world, halted>>

\* The tables a system's query matches change between frames.
SetTables(e, n) ==
    /\ halted = ""
    /\ UNCHANGED timer
    /\ frame.pc = "idle"
    /\ systems[e].query
    /\ systems[e].tables # n
    /\ systems' = [systems EXCEPT ![e].tables = n]
    /\ last' = NoCall
    /\ frame' = IdleFrame
    /\ UNCHANGED <<query_match_count, pq, world, halted>>

\* ---------------------------------------------------- ecs_deactivate_systems
\* The sweep without the test of line 567: every system with a query is tagged.
SweepMarks_untested(sys) ==
    {e \in YieldedBy(BuildQuerySig, sys) : sys[e].query}

\* Lines 554-574: the systems the sweep tags Inactive.
SweepMarks(sys) ==
    {e \in YieldedBy(BuildQuerySig, sys) : sys[e].query /\ sys[e].tables = 0}

\* ecs_assert(condition, error) on the use of the public API: "" when the
\* condition holds, else the error the program stops with.
ecs_assert(condition, error) == IF condition THEN "" ELSE error

\* The systems after the sweep tagged `marks`.
Swept(sys, marks) ==
    [e \in SystemIds |->
        IF e \in marks THEN [sys[e] EXCEPT !.tags = @ \cup {"EcsInactive"}]
        ELSE sys[e]]

\* ecs_deactivate_systems without the test of line 546: the sweep runs
\* during a frame too.
ecs_deactivate_systems_unguarded ==
    /\ halted = ""
    /\ UNCHANGED timer
    /\ frame.pc = "idle" \/ world.in_progress
    /\ query_match_count < MaxMatchCount
    /\ LET marks == SweepMarks(systems)
           after == Swept(systems, marks) IN
       /\ systems' = after
       /\ query_match_count' = bump_match_count(query_match_count, systems, after)
       /\ last' = Called("ecs_deactivate_systems", 0, FALSE, marks)
    /\ frame' = IF world.in_progress THEN frame ELSE IdleFrame
    /\ UNCHANGED <<pq, world, halted>>

\* ecs_deactivate_systems, called between frames or by a system of a frame.
ecs_deactivate_systems ==
    /\ halted = ""
    /\ UNCHANGED timer
    /\ frame.pc = "idle" \/ world.in_progress
    /\ LET stop == ecs_assert(~world.in_progress, "ECS_INVALID_WHILE_ITERATING") IN
       IF stop # ""
       THEN /\ halted' = stop
            /\ last' = Called("ecs_deactivate_systems", 0, FALSE, {})
            /\ UNCHANGED <<systems, query_match_count, frame>>
       ELSE /\ query_match_count < MaxMatchCount
            /\ LET marks == SweepMarks(systems)
                   after == Swept(systems, marks) IN
               /\ systems' = after
               /\ query_match_count' = bump_match_count(query_match_count, systems, after)
               /\ last' = Called("ecs_deactivate_systems", 0, FALSE, marks)
            /\ frame' = IdleFrame
            /\ UNCHANGED halted
    /\ UNCHANGED <<pq, world>>

\* ------------------------------------------------------------- frame driver
\* The group each system is placed in by a build over `sys` (0: the build
\* does not place it).  Used to state claims about groups, not by the code.
RECURSIVE plan_groups(_, _, _, _)
plan_groups(b, entities, sys, groups) ==
    IF entities = <<>>
    THEN groups
    ELSE LET e == Head(entities)
             b2 == build_system(b, sys[e], ~ecs_has_entity(sys, e, "EcsInactive"))
         IN plan_groups(b2, Tail(entities), sys,
                        IF sys[e].query THEN [groups EXCEPT ![e] = b2.op] ELSE groups)

GroupOf(sys) ==
    plan_groups(BuildStart, query_iter(BuildQuerySig, sys), sys,
                [e \in SystemIds |-> 0])

Event(ev, e, group, build) == [ev |-> ev, e |-> e, group |-> group, build |-> build]

\* ecs_vector_first / ecs_vector_last of the ops vector, as indexes: 0 is
\* NULL (no ops).
ops_first(ops) == IF ops = <<>> THEN 0 ELSE 1
ops_last(ops) == Len(ops)

\* The values a read of op->count can give: the count of the op when `op`
\* points into the vector; any value when it points past its end or is NULL
\* (the read is undefined).
op_count(ops, op) ==
    IF op \in 1..Len(ops) THEN {ops[op]} ELSE 0..NumSystems

\* The other outcome of an undefined read of op->count: the access faults
\* and the process is killed.
op_faults(ops, op) == op \notin 1..Len(ops)

\* iter_reset, lines 246-271: walk a fresh iteration of the run query,
\* mirroring the group advances, up to the entity move_to.  The set of the
\* outcomes: found is FALSE when the walk ends without meeting move_to
\* (ecs_abort, line 269); i is the index the driver's loop continues from;
\* fault tells that the read of line 256 killed the process.
RECURSIVE iter_reset_walk(_, _, _, _, _, _, _)
iter_reset_walk(ops, it, move_to, k, op, ran_since_merge, undefined) ==
    IF k > Len(it)
    THEN {[found |-> FALSE, i |-> -1, op |-> op, undefined |-> undefined,
           fault |-> FALSE]}
    ELSE (IF op_faults(ops, op)
          THEN {[found |-> FALSE, i |-> -1, op |-> op, undefined |-> TRUE,
                 fault |-> TRUE]}
          ELSE {})
         \cup UNION {
           LET ran == ran_since_merge + 1
               advance == (ran = count)
               op2 == IF advance THEN op + 1 ELSE op
               ran2 == IF advance THEN 0 ELSE ran
               undefined2 == undefined \/ op \notin 1..Len(ops)
           IN IF it[k] = move_to
              THEN {[found |-> TRUE, i |-> k, op |-> op2, undefined |-> undefined2,
                     fault |-> FALSE]}
              ELSE iter_reset_walk(ops, it, move_to, k + 1, op2, ran2, undefined2)
           : count \in op_count(ops, op)}

\* iter_reset returning the index before move_to: the driver's loop then
\* continues with move_to itself.
iter_reset_before(ops, it, move_to) ==
    {[o EXCEPT !.i = IF o.found THEN @ - 1 ELSE @] :
        o \in iter_reset_walk(ops, it, move_to, 1, ops_first(ops), 0, FALSE)}

iter_reset(ops, it, move_to) ==
    iter_reset_walk(ops, it, move_to, 1, ops_first(ops), 0, FALSE)

\* The merge of a barrier: the staged operations of the systems that ran are
\* applied, which may add the Inactive tag to systems or remove it.
\* `inactive` is the set of the systems that are Inactive after the merge.
merge(sys, inactive) ==
    [e \in SystemIds |->
        [sys[e] EXCEPT !.tags = IF e \in inactive
                                THEN @ \cup {"EcsInactive"}
                                ELSE @ \ {"EcsInactive"}]]

Inactive(sys) == {e \in SystemIds : ecs_has_entity(sys, e, "EcsInactive")}

\* ecs_progress up to the loop of ecs_pipeline_progress: ecs_frame_begin,
\* then ecs_workers_progress begins the frame (ecs_pipeline_begin, the world
\* goes in progress) and ecs_pipeline_progress runs its lines 317-328.
ecs_progress_begin ==
    /\ halted = ""
    /\ UNCHANGED timer
    /\ frame.pc = "idle"
    /\ ~world.in_progress
    /\ \E ndebug \in BOOLEAN :
         LET r == build_pipeline(systems, pq, query_match_count)
             stop == assert_stops(r, ndebug) IN
         /\ halted' = IF stop THEN "ECS_INTERNAL_ERROR" ELSE ""
         /\ pq' = r.pq
         /\ world' = [count_build(world, r) EXCEPT !.in_progress = ~stop]
         /\ frame' = IF stop THEN IdleFrame
                     ELSE [IdleFrame EXCEPT
                             !.pc = "run",
                             !.it = query_iter(RunQuerySig, systems),
                             !.op = ops_first(r.pq.ops),
                             !.op_last = ops_last(r.pq.ops),
                             !.log = <<Event("worker_begin", 0, 0, 0)>>]
    /\ last' = NoCall
    /\ UNCHANGED <<systems, query_match_count>>

\* One iteration of the loop of ecs_pipeline_progress (lines 333-357): the
\* next system of the iterator runs (and may call ecs_quit); when the count
\* of the current op is reached and the op is not the last, the barrier
\* ecs_worker_sync merges and updates the pipeline, and the iterator is
\* recovered with iter_reset when the barrier reports a change.
run_system ==
    /\ halted = ""
    /\ UNCHANGED timer
    /\ frame.pc = "run"
    /\ frame.i < Len(frame.it)
    /\ \E quit \in BOOLEAN :
       \E count \in (IF frame.op # frame.op_last
                     THEN op_count(pq.ops, frame.op) ELSE {-1}) :
       \E fault \in (IF frame.op # frame.op_last /\ op_faults(pq.ops, frame.op)
                     THEN BOOLEAN ELSE {FALSE}) :
         LET i == frame.i + 1
             e == frame.it[i]
             ran == frame.ran_since_merge + 1
             ran_log == Append(frame.log,
                               Event("run", e, GroupOf(systems)[e],
                                     world.pipeline_build_count_total))
             log == IF quit THEN Append(ran_log, Event("ecs_quit", e, 0, 0))
                    ELSE ran_log
             undefined == frame.undefined
                          \/ (frame.op # frame.op_last
                              /\ frame.op \notin 1..Len(pq.ops))
             w == [world EXCEPT !.should_quit = @ \/ quit]
         IN
         IF fault
         THEN /\ halted' = "SIGSEGV"
              /\ frame' = [frame EXCEPT !.i = i, !.ran_since_merge = ran,
                                         !.log = log, !.undefined = TRUE]
              /\ world' = w
              /\ UNCHANGED <<systems, query_match_count, pq>>
         ELSE IF ~(frame.op # frame.op_last /\ ran = count)
         THEN /\ frame' = [frame EXCEPT !.i = i, !.ran_since_merge = ran,
                                         !.log = log, !.undefined = undefined]
              /\ world' = w
              /\ UNCHANGED <<systems, query_match_count, pq, halted>>
         ELSE \E inactive \in SUBSET SystemIds, ndebug \in BOOLEAN :
              LET merged == merge(systems, inactive)
                  count2 == bump_match_count(query_match_count, systems, merged)
                  r == build_pipeline(merged, pq, count2)
                  it2 == query_iter(RunQuerySig, merged)
                  synced == Append(log, Event("worker_sync", e, 0, 0))
              IN
              /\ count2 <= MaxMatchCount
              /\ systems' = merged
              /\ query_match_count' = count2
              /\ pq' = r.pq
              /\ world' = count_build(w, r)
              /\ IF assert_stops(r, ndebug)
                 THEN /\ halted' = "ECS_INTERNAL_ERROR"
                      /\ frame' = [frame EXCEPT !.log = synced]
                 ELSE IF ~r.rebuilt
                 THEN /\ halted' = ""
                      /\ frame' = [frame EXCEPT
                                     !.i = i, !.ran_since_merge = 0,
                                     !.op = frame.op + 1, !.log = synced,
                                     !.undefined = undefined]
                 ELSE \E o \in iter_reset(r.pq.ops, it2, e) :
                      /\ halted' = IF o.fault THEN "SIGSEGV"
                                   ELSE IF o.found THEN "" ELSE "ECS_UNSUPPORTED"
                      /\ frame' = [frame EXCEPT
                                     !.it = it2,
                                     !.i = o.i,
                                     !.ran_since_merge = 0,
                                     !.op = o.op,
                                     !.op_last = ops_last(r.pq.ops),
                                     !.log = Append(synced, Event("iter_reset", e, 0, 0)),
                                     !.resets = @ + 1,
                                     !.resumed = o.i,
                                     !.undefined = undefined \/ o.undefined]
    /\ last' = NoCall

\* ecs_progress leaving the loop as soon as should_quit is set.
ecs_progress_end_on_quit ==
    /\ halted = ""
    /\ UNCHANGED timer
    /\ frame.pc = "run"
    /\ frame.i >= Len(frame.it) \/ world.should_quit
    /\ frame' = [frame EXCEPT !.pc = "idle",
                              !.log = Append(@, Event("worker_end", 0, 0, 0))]
    /\ world' = [world EXCEPT !.in_progress = FALSE]
    /\ last' = Called("ecs_progress", IF world.should_quit THEN 0 ELSE 1, FALSE, {})
    /\ UNCHANGED <<systems, query_match_count, pq, halted>>

\* The end of ecs_progress: the loop is over, ecs_worker_end, the world
\* leaves the frame, ecs_frame_end, and the return of line 533.
ecs_progress_end ==
    /\ halted = ""
    /\ UNCHANGED timer
    /\ frame.pc = "run"
    /\ frame.i >= Len(frame.it)
    /\ frame' = [frame EXCEPT !.pc = "idle",
                              !.log = Append(@, Event("worker_end", 0, 0, 0))]
    /\ world' = [world EXCEPT !.in_progress = FALSE]
    /\ last' = Called("ecs_progress", IF world.should_quit THEN 0 ELSE 1, FALSE, {})
    /\ UNCHANGED <<systems, query_match_count, pq, halted>>

\* -------------------------------------------------------------- frame clock
\* The settings of the clock, changed between frames: ecs_measure_frame_time,
\* ecs_set_target_fps and the time source of the OS API.
TargetFps == {<<0, 1>>, <<60, 1>>, <<1, 0>>}

SetClock(measure_frame_time, target_fps, get_time) ==
    /\ halted = ""
    /\ frame.pc = "idle"
    /\ timer.pc = "idle"
    /\ measure_frame_time => get_time
    /\ timer' = [timer EXCEPT !.measure_frame_time = measure_frame_time,
                              !.target_fps = target_fps,
                              !.get_time = get_time]
    /\ last' = NoCall
    /\ UNCHANGED <<systems, query_match_count, pq, world, frame, halted>>

\* ecs_time_t.sec of a time in ticks.
Sec(time) == time \div TicksPerSec

UserDeltas == {<<0, 1>>, <<1, 60>>, <<-1, 60>>}

\* ecs_frame_begin, lines 491-507, up to the loop of start_measure_frame
\* (line 435) or, when nothing is measured, to its return.
ecs_frame_begin(user_delta_time) ==
    /\ halted = ""
    /\ frame.pc = "idle"
    /\ timer.pc = "idle"
    /\ IF ecs_assert(~IsZero(user_delta_time) \/ timer.get_time,
                     "ECS_MISSING_OS_API") # ""
       THEN /\ halted' = "ECS_MISSING_OS_API"
            /\ UNCHANGED <<timer, last>>
       ELSE IF timer.measure_frame_time \/ IsZero(user_delta_time)
       THEN /\ timer' = [timer EXCEPT !.pc = "measure",
                                      !.t = timer.frame_start_time,
                                      !.user_delta_time = user_delta_time,
                                      !.retried = FALSE]
            /\ last' = NoCall
            /\ UNCHANGED halted
       ELSE /\ timer' = [timer EXCEPT !.delta_time = user_delta_time,
                                      !.user_delta_time = user_delta_time]
            /\ last' = Called("ecs_frame_begin", user_delta_time, FALSE, {})
            /\ UNCHANGED halted
    /\ UNCHANGED <<systems, query_match_count, pq, world, frame>>

\* start_measure_frame returning after one pass of its loop, whatever the
\* delta it measured.
start_measure_frame_once(now) ==
    /\ halted = ""
    /\ timer.pc = "measure"
    /\ LET delta_time ==
             IF Sec(timer.frame_start_time) # 0
             THEN <<now - timer.t, TicksPerSec>>
             ELSE IF ~IsZero(timer.target_fps)
                  THEN Inverse(timer.target_fps)
                  ELSE <<1, 60>>
           returned == IF IsZero(timer.user_delta_time)
                       THEN delta_time ELSE timer.user_delta_time
       IN /\ timer' = [timer EXCEPT !.pc = "idle", !.t = now,
                                    !.frame_start_time = now,
                                    !.delta_time = returned]
          /\ last' = Called("ecs_frame_begin", returned, FALSE, {})
    /\ UNCHANGED <<systems, query_match_count, pq, world, frame, halted>>

\* One pass of the loop of start_measure_frame (lines 435-448) with the
\* clock reading `now`; when the delta is not zero, the rest of
\* start_measure_frame (lines 450-457) and of ecs_frame_begin (lines 501-507).
start_measure_frame_try(now) ==
    /\ halted = ""
    /\ timer.pc = "measure"
    /\ LET delta_time ==
             IF Sec(timer.frame_start_time) # 0
             THEN <<now - timer.t, TicksPerSec>>
             ELSE IF ~IsZero(timer.target_fps)
                  THEN Inverse(timer.target_fps)
                  ELSE <<1, 60>>
           returned == IF IsZero(timer.user_delta_time)
                       THEN delta_time ELSE timer.user_delta_time
       IN IF IsZero(delta_time)
          THEN /\ timer' = [timer EXCEPT !.t = now, !.retried = TRUE]
               /\ last' = NoCall
          ELSE /\ timer' = [timer EXCEPT !.pc = "idle", !.t = now,
                                         !.frame_start_time = now,
                                         !.delta_time = returned]
               /\ last' = Called("ecs_frame_begin", returned, FALSE, {})
    /\ UNCHANGED <<systems, query_match_count, pq, world, frame, halted>>

\* ----------------------------------------------------------- specifications
StageWriteA == Column("EcsFromEmpty", "EcsOperAnd", "EcsOut", "A")
ReadA == Column("EcsFromSelf", "EcsOperAnd", "EcsIn", "A")

\* The column lists the systems of a frame are drawn from: no column, a
\* staged write of A, a read of A.
FrameColumns == {<<>>, <<StageWriteA>>, <<ReadA>>}

\* The whole program.
Init == InitWith(FrameColumns, SUBSET {"EcsInactive"}, 0..MaxTables)

Next ==
    \/ ecs_pipeline_update
    \/ ecs_pipeline_begin
    \/ \E e \in SystemIds, tag \in SystemTags : SetTag(e, tag)
    \/ \E e \in SystemIds, n \in 0..MaxTables : SetTables(e, n)
    \/ ecs_deactivate_systems
    \/ ecs_progress_begin
    \/ run_system
    \/ ecs_progress_end

Spec == Init /\ [][Next]_vars

\* Frames only: ecs_progress over the systems of Init, whose tags change in
\* the merges of the frames.
InitFrame == InitWith(FrameColumns, SUBSET {"EcsInactive"}, {MaxTables})

NextFrame ==
    \/ ecs_progress_begin
    \/ run_system
    \/ ecs_progress_end

SpecFrame == InitFrame /\ [][NextFrame]_vars

\* Builds only: ecs_pipeline_update and ecs_pipeline_begin over systems whose
\* Inactive tag is added and removed between the calls.
MainWriteA == Column("EcsFromSelf", "EcsOperAnd", "EcsOut", "A")
OrReadA == Column("EcsFromSelf", "EcsOperOr", "EcsIn", "A")

BuildColumns == {<<StageWriteA>>, <<ReadA>>, <<MainWriteA>>, <<OrReadA>>}

InitBuild ==
    InitWith(BuildColumns, {{}, {"EcsInactive"}, {"EcsDisabledIntern"}}, {MaxTables})

NextBuild ==
    \/ ecs_pipeline_update
    \/ ecs_pipeline_begin
    \/ \E e \in SystemIds : SetTag(e, "EcsInactive")

SpecBuild == InitBuild /\ [][NextBuild]_vars

\* The sweep only: ecs_deactivate_systems over systems whose queries gain and
\* lose tables and whose Inactive tag is removed between the calls.
InitSweep == InitWith({<<>>}, SUBSET {"EcsInactive"}, 0..MaxTables)

NextSweep ==
    \/ ecs_deactivate_systems
    \/ \E e \in SystemIds, n \in 0..MaxTables : SetTables(e, n)
    \/ \E e \in SystemIds : SetTag(e, "EcsInactive")

SpecSweep == InitSweep /\ [][NextSweep]_vars

\* The same calls over fewer kinds of systems.
InitUpdate ==
    InitWith({<<StageWriteA>>, <<ReadA>>}, SUBSET {"EcsInactive"}, {MaxTables})

SpecUpdate == InitUpdate /\ [][NextBuild]_vars

\* ------------------------------------------------------------------- claims
RECURSIVE SumSeq(_)
SumSeq(seq) == IF seq = <<>> THEN 0 ELSE Head(seq) + SumSeq(Tail(seq))

Range(seq) == {seq[k] : k \in 1..Len(seq)}

BuildCalls == {"ecs_pipeline_update", "ecs_pipeline_begin"}

\* The state right after a call that rebuilt the plan.
JustBuilt == last.call \in BuildCalls /\ last.rebuilt /\ halted = ""

\* C1: after every build, the counts of the execution groups add up to the
\* number of systems the run query yields, the systems the driver will run.
C1_CountsSumToRunQuery ==
    JustBuilt => SumSeq(pq.ops) = Len(query_iter(RunQuerySig, systems))

\* The components a system writes to staged storage and reads from itself,
\* as the claims name them.
StageWrites(system) ==
    {system.columns[k].component : k \in
        {j \in 1..Len(system.columns) :
            /\ system.columns[j].from_kind = "EcsFromEmpty"
               \/ system.columns[j].oper_kind = "EcsOperNot"
            /\ system.columns[j].inout_kind \in {"EcsOut", "EcsInOut"}}}

SelfReads(system) ==
    {system.columns[k].component : k \in
        {j \in 1..Len(system.columns) :
            /\ system.columns[j].from_kind = "EcsFromSelf"
            /\ system.columns[j].oper_kind # "EcsOperNot"
            /\ system.columns[j].inout_kind \in {"EcsIn", "EcsInOut"}}}

\* C2: in a plan the builder produced, no system reads from itself a
\* component that a system placed before it in the same execution group
\* writes to staged storage.
C2_NoStagedReadInGroup ==
    JustBuilt =>
        \A a, b \in SystemIds :
            (a < b /\ GroupOf(systems)[a] # 0
                   /\ GroupOf(systems)[a] = GroupOf(systems)[b])
            => StageWrites(systems[a]) \cap SelfReads(systems[b]) = {}

\* C6: ecs_pipeline_update returns the number of execution groups of the
\* plan as it stands after the call, which is what ecs_pipeline_begin returns.
C6_UpdateReturnsGroupCount ==
    (last.call = "ecs_pipeline_update" /\ halted = "")
        => last.result = Len(build_pipeline(systems, pq, query_match_count).pq.ops)

\* The systems a build over `sys` starts a new group with after a first
\* group exists: the systems preceded by a merge.
MergedBefore(sys) ==
    {e \in SystemIds :
        /\ GroupOf(sys)[e] > 1
        /\ \A d \in SystemIds : d < e => GroupOf(sys)[d] # GroupOf(sys)[e]}

Activated(sys) == [e \in SystemIds |-> [sys[e] EXCEPT !.tags = @ \ {"EcsInactive"}]]

\* C7: the build starts a new group before the same systems as it would
\* with every Inactive system active.
C7_MergesAsIfActive ==
    JustBuilt => MergedBefore(systems) = MergedBefore(Activated(systems))

\* C8: the build query is made of the three columns System, XOR-phase and
\* not-DisabledIntern, and yields every system that is Inactive and not
\* DisabledIntern, which the run query does not yield.
C8_BuildQueryYieldsInactive ==
    /\ BuildQuerySig = <<Column("EcsFromSelf", "EcsOperAnd", "EcsIn", "EcsSystem"),
                         Column("EcsFromSelf", "EcsOperAnd", "EcsIn", "XOR|pipeline"),
                         Column("EcsFromSelf", "EcsOperNot", "EcsIn", "EcsDisabledIntern")>>
    /\ \A e \in SystemIds :
        ("EcsInactive" \in systems[e].tags /\ "EcsDisabledIntern" \notin systems[e].tags)
        => /\ e \in YieldedBy(BuildQuerySig, systems)
           /\ e \notin YieldedBy(RunQuerySig, systems)

\* ------------------------------------------------------ claims on the frame
\* The indexes of the frame's log that hold an event of kind ev.
EventsOf(ev) == {k \in 1..Len(frame.log) : frame.log[k].ev = ev}

Max(S) == CHOOSE x \in S : \A y \in S : y <= x

\* The systems executed after index k of the log, in the order they ran.
RECURSIVE RunsFrom(_)
RunsFrom(k) ==
    IF k > Len(frame.log) THEN <<>>
    ELSE IF frame.log[k].ev = "run"
         THEN <<frame.log[k].e>> \o RunsFrom(k + 1)
         ELSE RunsFrom(k + 1)

NoDuplicates(seq) == \A j, k \in 1..Len(seq) : seq[j] = seq[k] => j = k

FrameEnded == last.call = "ecs_progress"

\* C3: for two systems executed in a frame that the plan in force places in
\* different groups, the barrier is called after the one of the earlier group
\* ran and before the one of the later group runs.
C3_BarrierBetweenGroups ==
    \A p, q \in EventsOf("run") :
        (/\ p < q
         /\ frame.log[p].build = frame.log[q].build
         /\ frame.log[p].group > 0
         /\ frame.log[p].group < frame.log[q].group)
        => \E k \in EventsOf("worker_sync") : p < k /\ k < q

\* C4 as stated: in a frame with recoveries no system is executed twice, and
\* at the end of the frame every system the run query yields since the
\* recovery has been executed.
C4_NoneSkippedAfterRecovery ==
    /\ NoDuplicates(RunsFrom(1))
    /\ (FrameEnded /\ frame.resets > 0) => Range(frame.it) \subseteq Range(RunsFrom(1))

\* C4, amended: in a frame with recoveries no system is executed twice, and
\* at the end of the frame the systems executed since the last recovery are
\* the systems the fresh iterator yields after the entity e the recovery
\* moved to, in the iterator's order.
C4_ResumesAfterLastExecuted ==
    /\ NoDuplicates(RunsFrom(1))
    /\ (FrameEnded /\ frame.resets > 0) =>
          LET k == Max(EventsOf("iter_reset"))
              e == frame.log[k].e
          IN \E pos \in 1..Len(frame.it) :
                /\ frame.it[pos] = e
                /\ RunsFrom(k) = SubSeq(frame.it, pos + 1, Len(frame.it))

\* A frame ended in which a recovery resumed with at least one system left,
\* and a system activated by the merge was left out.
C4_Witness ==
    /\ FrameEnded
    /\ frame.resets > 0
    /\ RunsFrom(Max(EventsOf("iter_reset") \cup {1})) # <<>>
    /\ Range(frame.it) \ Range(RunsFrom(1)) # {}

\* C5: a build requested while the run query's match_count equals the
\* snapshot of the previous build leaves the group vector and the snapshot
\* as they are, does not count a build and reports no change.
C5_NoRebuildWhenUnchanged ==
    [][((ecs_pipeline_update \/ ecs_pipeline_begin)
            /\ pq.match_count = query_match_count)
        => /\ pq' = pq
           /\ world'.pipeline_build_count_total = world.pipeline_build_count_total
           /\ ~last'.rebuilt]_vars

\* A build was requested on an unchanged match_count, over a plan with groups.
C5_Witness ==
    /\ last.call \in BuildCalls
    /\ ~last.rebuilt
    /\ pq.match_count = query_match_count
    /\ pq.ops # <<>>
    /\ world.pipeline_build_count_total > 0

\* C9: when ecs_quit was called by a system of the frame, the frame still
\* runs to its end (every system the iterator is left to yield is executed
\* and the worker epoch is closed) and ecs_progress returns false.
C9_QuitCompletesFrame ==
    (FrameEnded /\ EventsOf("ecs_quit") # {}) =>
        /\ last.result = 0
        /\ frame.log[Len(frame.log)].ev = "worker_end"
        /\ frame.i = Len(frame.it)
        /\ RunsFrom(Max(EventsOf("iter_reset") \cup {1}))
              = SubSeq(frame.it, frame.resumed + 1, Len(frame.it))

\* A frame ended in which systems ran and a barrier was passed after the
\* call of ecs_quit.
C9_Witness ==
    /\ FrameEnded
    /\ \E k \in EventsOf("ecs_quit") :
          /\ \E r \in EventsOf("run") : r > k
          /\ \E b \in EventsOf("worker_sync") : b > k

\* C10: the sweep adds the Inactive tag only to a system that has a query
\* matching no table, never to a system whose query matches a table.
C10_SweepMarksOnlyUnmatched ==
    [][ecs_deactivate_systems =>
        \A e \in SystemIds :
            ("EcsInactive" \notin systems[e].tags /\ "EcsInactive" \in systems'[e].tags)
            => (systems[e].query /\ systems[e].tables = 0)]_vars

\* A sweep tagged a system and left alone a system whose query matches a table.
C10_Witness ==
    /\ last.call = "ecs_deactivate_systems"
    /\ last.added # {}
    /\ \E e \in SystemIds :
          /\ systems[e].query
          /\ systems[e].tables > 0
          /\ "EcsInactive" \notin systems[e].tags

\* The frame clock only: ecs_frame_begin under every setting of the clock.
InitTime == InitWith({<<>>}, {{}}, {MaxTables})

NextTime ==
    \/ \E m \in BOOLEAN, fps \in TargetFps, g \in BOOLEAN : SetClock(m, fps, g)
    \/ \E user_delta_time \in UserDeltas : ecs_frame_begin(user_delta_time)
    \/ \E now \in 0..MaxClock : start_measure_frame_try(now)

SpecTime == InitTime /\ [][NextTime]_vars

\* C11: every call of ecs_frame_begin that returns, returns a delta_time
\* different from zero.
C11_FrameBeginNonZero ==
    last.call = "ecs_frame_begin" => ~IsZero(last.result)

\* ecs_frame_begin returned a measured delta after its loop read a clock
\* that had not advanced and tried again.
C11_Witness ==
    /\ last.call = "ecs_frame_begin"
    /\ IsZero(timer.user_delta_time)
    /\ last.result[2] = TicksPerSec
    /\ timer.retried
    /\ Sec(timer.frame_start_time) # 0

\* Builds over systems with ids of the whole 64-bit range, stored in every
\* order.
EntityIds == {<<0, 0, 1>>, <<0, 0, 2>>, <<0, Word \div 2, 1>>, <<1, 0, 1>>}

Injective(f) == \A j, k \in DOMAIN f : f[j] = f[k] => j = k

InitOrder ==
    /\ systems \in
          {WithIds(kinds, ids) :
              kinds \in [SystemIds -> {System(TRUE, c, {}, MaxTables) :
                                          c \in {<<StageWriteA>>, <<ReadA>>}}],
              ids \in {f \in [SystemIds -> EntityIds] : Injective(f)}}
    /\ InitPipeline

NextOrder ==
    \/ ecs_pipeline_update
    \/ ecs_pipeline_begin

SpecOrder == InitOrder /\ [][NextOrder]_vars

\* The sign of a 32-bit int, and of the difference of two 64-bit ids.
Sign(x) == IF x < 0 THEN -1 ELSE IF x > 0 THEN 1 ELSE 0

SignOfDifference(e1, e2) ==
    IF e1[1] # e2[1] THEN Sign(e1[1] - e2[1])
    ELSE IF e1[2] # e2[2] THEN Sign(e1[2] - e2[2])
    ELSE Sign(e1[3] - e2[3])

\* The same systems stored in another order.
Reordered(sys, p) == [k \in SystemIds |-> sys[p[k]]]

StorageOrders == {p \in [SystemIds -> SystemIds] : Injective(p)}

\* C12: the plan is a function of the set of systems: a build over the same
\* systems stored (registered) in any other order gives the same group vector.
C12_PlanIndependentOfOrder ==
    JustBuilt =>
        \A p \in StorageOrders :
            build_loop(BuildStart,
                       query_iter(BuildQuerySig, Reordered(systems, p)),
                       Reordered(systems, p)).ops = pq.ops

\* C20: compare_entity returns a value whose sign is the sign of the
\* difference of the two 64-bit ids.
C20_CompareEntitySign ==
    \A a, b \in SystemIds :
        Sign(compare_entity(systems[a].id, systems[b].id))
            = SignOfDifference(systems[a].id, systems[b].id)

\* C13: the first build requested on a new pipeline is a full build, whatever
\* the run query's match_count is: the build counter goes from 0 to 1, the
\* snapshot becomes the run query's match_count and the call reports a rebuild.
C13_FirstBuildForced ==
    [][((ecs_pipeline_update \/ ecs_pipeline_begin)
            /\ world.pipeline_build_count_total = 0)
        => /\ world'.pipeline_build_count_total = 1
           /\ pq'.match_count = query_match_count
           /\ last'.rebuilt]_vars

\* The first build of a pipeline whose run query had changed before it.
C13_Witness ==
    /\ last.call \in BuildCalls
    /\ last.rebuilt
    /\ world.pipeline_build_count_total = 1
    /\ pq.match_count > 0

\* Frames and the sweep: ecs_deactivate_systems called between the frames and
\* by the systems of a frame.
InitGuard == InitWith({<<>>}, SUBSET {"EcsInactive"}, 0..MaxTables)

NextGuard ==
    \/ ecs_progress_begin
    \/ run_system
    \/ ecs_progress_end
    \/ ecs_deactivate_systems

SpecGuard == InitGuard /\ [][NextGuard]_vars

ParentNotOutA == Column("EcsFromParent", "EcsOperNot", "EcsOut", "A")
ParentOutA == Column("EcsFromParent", "EcsOperAnd", "EcsOut", "A")
ParentReadA == Column("EcsFromParent", "EcsOperAnd", "EcsIn", "A")

PlanColumns ==
    {<<StageWriteA>>, <<ReadA>>, <<MainWriteA>>, <<OrReadA>>,
     <<ParentNotOutA>>, <<ParentOutA>>, <<ParentReadA>>,
     <<StageWriteA, ReadA>>, <<ReadA, StageWriteA>>}

InitPlan == InitWith(PlanColumns, {{}}, {MaxTables})

SpecPlan == InitPlan /\ [][NextOrder]_vars

\* The components a system writes to main storage, as the claims name them.
MainWrites(system) ==
    {system.columns[k].component : k \in
        {j \in 1..Len(system.columns) :
            /\ system.columns[j].from_kind = "EcsFromSelf"
            /\ system.columns[j].oper_kind # "EcsOperNot"
            /\ system.columns[j].inout_kind \in {"EcsOut", "EcsInOut"}}}

\* C15: in a plan the builder produced, no system writes to staged storage
\* a component that a system placed before it in the same execution group
\* writes to main storage.
C15_NoStageWriteAfterMainWrite ==
    JustBuilt =>
        \A a, b \in SystemIds :
            (a < b /\ GroupOf(systems)[a] # 0
                   /\ GroupOf(systems)[a] = GroupOf(systems)[b])
            => MainWrites(systems[a]) \cap StageWrites(systems[b]) = {}

\* C17: the re-evaluation of a system's columns after a forced merge never
\* requests another merge: no build violates the assertion of build_pipeline.
C17_ReevaluationNeverMerges ==
    /\ halted # "ECS_INTERNAL_ERROR"
    /\ last.call \in BuildCalls =>
          ~build_loop(BuildStart, query_iter(BuildQuerySig, systems), systems).assert_failed

\* Every column of another source than FromSelf and FromEmpty, and every
\* write state a build can be in when it checks a column.
OtherSourceColumns ==
    {Column(f, o, io, c) : f \in FromKinds \ {"EcsFromSelf", "EcsFromEmpty"},
                           o \in OperKinds, io \in InOutKinds, c \in Components}

WriteStates ==
    UNION {[D -> {NotWritten, WriteToMain, WriteToStage}] : D \in SUBSET Components}

ColumnsOf(sys) == UNION {Range(sys[e].columns) : e \in SystemIds}

SameWriteState(ws1, ws2) ==
    \A c \in Components : get_write_state(ws1, c) = get_write_state(ws2, c)

\* A system set without the columns that satisfy Dropped.
Without(sys, Dropped(_)) ==
    [e \in SystemIds |->
        [sys[e] EXCEPT !.columns =
            LET Kept(column) == ~Dropped(column) IN SelectSeq(@, Kept)]]

OtherSource(column) == column.from_kind \notin {"EcsFromSelf", "EcsFromEmpty"}

OtherSourceNotNot(column) ==
    OtherSource(column) /\ column.oper_kind # "EcsOperNot"

PlanOf(sys) == build_loop(BuildStart, query_iter(BuildQuerySig, sys), sys).ops

\* C19 as stated: a column of another source than FromSelf and FromEmpty
\* never requests a merge and never changes the write state, whatever its
\* operator and io kind, so that the plan is the plan of the systems without
\* these columns.
C19_OtherSourcesTransparent ==
    /\ \A column \in OtherSourceColumns \cup {c \in ColumnsOf(systems) : OtherSource(c)},
          is_active \in BOOLEAN, write_state \in WriteStates :
          LET r == check_column(column, is_active, write_state) IN
          ~r.merge /\ SameWriteState(r.write_state, write_state)
    /\ JustBuilt => pq.ops = PlanOf(Without(systems, OtherSource))

\* C19, amended: a column of another source than FromSelf and FromEmpty never
\* requests a merge, and changes the write state only when its operator is
\* Not, its io kind Out or InOut and the system active: then its component
\* becomes WriteToStage. The plan is the plan of the systems without the
\* columns of another source whose operator is not Not.
C19_OtherSourcesTransparentButNot ==
    /\ \A column \in OtherSourceColumns \cup {c \in ColumnsOf(systems) : OtherSource(c)},
          is_active \in BOOLEAN, write_state \in WriteStates :
          LET r == check_column(column, is_active, write_state) IN
          /\ ~r.merge
          /\ SameWriteState(r.write_state,
                IF /\ column.oper_kind = "EcsOperNot"
                   /\ column.inout_kind \in {"EcsOut", "EcsInOut"}
                   /\ is_active
                THEN set_write_state(write_state, column.component, WriteToStage)
                ELSE write_state)
    /\ JustBuilt => pq.ops = PlanOf(Without(systems, OtherSourceNotNot))

\* A build over a Not column of another source, a transparent column writing
\* the same component, and a reader: the Not column's staged write puts the
\* reader behind a merge.
C19_Witness ==
    /\ JustBuilt
    /\ systems[1].columns = <<ParentOutA>>
    /\ systems[2].columns = <<ParentNotOutA>>
    /\ systems[3].columns = <<ReadA>>
    /\ pq.ops = <<2, 1>>

\* The greedy single-pass reference. A column requests a merge when it is a
\* FromSelf column with an operator other than Or and Not and io kind In or
\* InOut whose component is WriteToStage; otherwise it leaves the state the
\* column table gives.
RequestsMerge(column, write_state) ==
    /\ column.oper_kind \notin {"EcsOperOr", "EcsOperNot"}
    /\ column.from_kind = "EcsFromSelf"
    /\ column.inout_kind \in {"EcsIn", "EcsInOut"}
    /\ get_write_state(write_state, column.component) = WriteToStage

Written(column, is_active, write_state) ==
    IF column.oper_kind = "EcsOperOr" \/ ~is_active
          \/ column.inout_kind = "EcsIn" \/ RequestsMerge(column, write_state)
    THEN write_state
    ELSE IF column.from_kind = "EcsFromSelf" /\ column.oper_kind # "EcsOperNot"
    THEN set_write_state(write_state, column.component, WriteToMain)
    ELSE IF column.from_kind = "EcsFromEmpty" \/ column.oper_kind = "EcsOperNot"
    THEN set_write_state(write_state, column.component, WriteToStage)
    ELSE write_state

\* One sweep over a system's columns: whether some column requested a merge,
\* and the state left behind.
RECURSIVE Sweep(_, _, _, _)
Sweep(columns, is_active, held, write_state) ==
    IF columns = <<>>
    THEN [held |-> held, write_state |-> write_state]
    ELSE Sweep(Tail(columns), is_active,
               held \/ RequestsMerge(Head(columns), write_state),
               Written(Head(columns), is_active, write_state))

\* The reference over the systems in build-query order: for every system the
\* number of systems up to and including it for which the predicate held.
RECURSIVE Greedy(_, _, _, _, _)
Greedy(entities, sys, write_state, count, held) ==
    IF entities = <<>>
    THEN held
    ELSE LET e == Head(entities)
             is_active == ~ecs_has_entity(sys, e, "EcsInactive")
             first == Sweep(sys[e].columns, is_active, FALSE, write_state)
             count2 == IF first.held THEN count + 1 ELSE count
             after == IF first.held
                      THEN Sweep(sys[e].columns, is_active, FALSE,
                                 EmptyWriteState).write_state
                      ELSE first.write_state
         IN Greedy(Tail(entities), sys, after, count2,
                   [held EXCEPT ![e] = count2])

HeldUpTo(sys) ==
    Greedy(query_iter(BuildQuerySig, sys), sys, EmptyWriteState, 0,
           [e \in SystemIds |-> 0])

\* C18: the plan the builder makes is the plan of the greedy reference: a
\* system is in group 1 + the number of systems, up to and including it in
\* build-query order, that have a column requesting a merge, and the number
\* of groups is 1 + the number of such systems.
C18_MatchesGreedyReference ==
    JustBuilt =>
        /\ Len(pq.ops) = 1 + Max(Range(HeldUpTo(systems)) \cup {0})
        /\ \A e \in SystemIds :
              systems[e].query /\ e \in Range(query_iter(BuildQuerySig, systems))
              => GroupOf(systems)[e] = 1 + HeldUpTo(systems)[e]

\* The same, for the system sets in which some system has a query and the
\* first such system does not request a merge on its own columns.
C18_Restricted ==
    (\E e \in SystemIds :
        /\ systems[e].query
        /\ \A d \in 1..(e - 1) : ~systems[d].query
        /\ ~Sweep(systems[e].columns, TRUE, FALSE, EmptyWriteState).held)
    => C18_MatchesGreedyReference

\* The state right after an iterator recovery: the last event of the frame
\* is the iter_reset for the system that ran just before the barrier.
JustReset ==
    frame.log # <<>> /\ frame.log[Len(frame.log)].ev = "iter_reset"

\* C16: the recovery aborts exactly when the system that ran just before
\* the barrier is not yielded by the fresh iteration of the run query; when
\* it is yielded the driver is positioned on it, so that its loop goes on
\* with the system right after it in the fresh iteration.
C16_AbortIffNotYielded ==
    JustReset =>
        LET e == frame.log[Len(frame.log)].e IN
        /\ halted = "ECS_UNSUPPORTED" <=> e \notin Range(frame.it)
        /\ e \in Range(frame.it) =>
              /\ halted = ""
              /\ frame.i \in 1..Len(frame.it)
              /\ frame.it[frame.i] = e

\* The same, for the system sets in which every system has a query: the
\* plan then has an op for every system the run query yields.
C16_Restricted ==
    (\A e \in SystemIds : systems[e].query) => C16_AbortIffNotYielded

\* The plan of the builder's loop over all the systems, the Inactive ones
\* included, in the order of their ids.
PlanOverAll(sys) ==
    build_loop(BuildStart,
               ecs_query_sort([e \in SystemIds |-> e], sys), sys).ops

NonFinalCountsPositive(ops) == \A g \in 1..(Len(ops) - 1) : ops[g] >= 1

\* C22: in every plan the builder produces, every execution group but the
\* last has a count of at least 1; so has every plan its loop makes of the
\* systems when the Inactive ones are among them.
C22_NonFinalGroupsCounted ==
    /\ last.call \in BuildCalls => NonFinalCountsPositive(pq.ops)
    /\ NonFinalCountsPositive(PlanOverAll(systems))

\* A build over systems of which the last, a reader behind a staged write,
\* is Inactive: the loop over all of them closes the writer's group, of
\* count 1, and opens a last group of count 0.
C22_Witness ==
    /\ JustBuilt
    /\ pq.ops # <<>>
    /\ \E e \in SystemIds : systems[e].query /\ ecs_has_entity(systems, e, "EcsInactive")
    /\ Len(PlanOverAll(systems)) >= 2
    /\ PlanOverAll(systems)[Len(PlanOverAll(systems))] = 0

\* The end of a frame in which no barrier reported a change: the plan of
\* the frame is the stored plan, and no iterator was recovered.
QuietFrameEnded == FrameEnded /\ frame.resets = 0 /\ Len(pq.ops) >= 1

\* C21: in a frame in which no barrier reports a change, over a plan of
\* G >= 1 groups, the barrier is called G - 1 times, once at each boundary:
\* for every group g but the last one call lies after the systems of the
\* groups up to g and before the systems of the later groups; worker_begin
\* is the first event of the frame and worker_end the last, once each.
C21_BarrierAtEachBoundary ==
    QuietFrameEnded =>
        /\ Cardinality(EventsOf("worker_sync")) = Len(pq.ops) - 1
        /\ \A g \in 1..(Len(pq.ops) - 1) :
              \E k \in EventsOf("worker_sync") :
                 \A r \in EventsOf("run") :
                    frame.log[r].group > 0 =>
                       (IF frame.log[r].group <= g THEN r < k ELSE k < r)
        /\ EventsOf("worker_begin") = {1}
        /\ EventsOf("worker_end") = {Len(frame.log)}

\* The same, for the system sets in which every system has a query.
C21_Restricted ==
    (\A e \in SystemIds : systems[e].query) => C21_BarrierAtEachBoundary

\* A quiet frame over a plan of two groups, every system with a query.
C21_RestrictedReached ==
    /\ QuietFrameEnded
    /\ Len(pq.ops) = 2
    /\ \A e \in SystemIds : systems[e].query
    /\ Cardinality(EventsOf("run")) = NumSystems

\* The position of the recovery algorithm: walk the iteration `it` from
\* index k against the counts of the plan, advancing the group whenever the
\* visits of the group reach its count, up to and including move_to.
RECURSIVE WalkTo(_, _, _, _, _, _)
WalkTo(ops, it, move_to, k, op, ran_since_merge) ==
    IF k > Len(it)
    THEN [op |-> op, ran_since_merge |-> ran_since_merge]
    ELSE LET ran == ran_since_merge + 1
             advance == op \in 1..Len(ops) /\ ran = ops[op]
             op2 == IF advance THEN op + 1 ELSE op
             ran2 == IF advance THEN 0 ELSE ran
         IN IF it[k] = move_to
            THEN [op |-> op2, ran_since_merge |-> ran2]
            ELSE WalkTo(ops, it, move_to, k + 1, op2, ran2)

\* C23: after an iterator recovery the driver's group pointer and
\* ran_since_merge are those of the walk of the fresh iteration up to and
\* including the system that ran just before the barrier, and the group
\* pointer is on a group of the plan whenever a system remains to be run.
C23_PositionAfterRecovery ==
    (JustReset /\ halted = "") =>
        LET e == frame.log[Len(frame.log)].e
            w == WalkTo(pq.ops, frame.it, e, 1, ops_first(pq.ops), 0)
        IN /\ frame.op = w.op
           /\ frame.ran_since_merge = w.ran_since_merge
           /\ frame.i < Len(frame.it) => frame.op \in 1..Len(pq.ops)

\* The group pointer alone, for the system sets in which every system has a
\* query.
C23_GroupPointer ==
    (JustReset /\ halted = "" /\ \A e \in SystemIds : systems[e].query) =>
        LET e == frame.log[Len(frame.log)].e
            w == WalkTo(pq.ops, frame.it, e, 1, ops_first(pq.ops), 0)
        IN /\ frame.op = w.op
           /\ frame.i < Len(frame.it) => frame.op \in 1..Len(pq.ops)

\* Frames' beginnings over systems that are activated, deactivated, removed
\* from the pipeline's queries and put back between the calls.
InitStale ==
    /\ systems \in
          {WithIds(kinds, [k \in SystemIds |-> EntityId(k)]) :
              kinds \in [SystemIds ->
                 {System(TRUE, c, t, MaxTables) :
                     c \in {<<StageWriteA>>, <<ReadA>>},
                     t \in SUBSET {"EcsInactive"}}]}
    /\ InitPipeline

NextStale ==
    \/ ecs_pipeline_begin
    \/ \E e \in SystemIds : SetTag(e, "EcsInactive")
    \/ \E e \in SystemIds : SetTag(e, "EcsDisabledIntern")

SpecStale == InitStale /\ [][NextStale]_vars

====
